---- MODULE Spec2Model ----
(***************************************************************************)
(* Model of core/binding-macro: the #[read] / #[write] signature checks,   *)
(* the #[cycles] injection, and the Service implementation that #[service] *)
(* generates (hook_before_, hook_after, write, read).                      *)
(*                                                                         *)
(* Build time: method declarations are verified and a service is bound.    *)
(* Run time: a host calls read(ctx) / write(ctx) / the hooks on the bound  *)
(* service; one invocation is followed from Received to its terminal state.*)
(***************************************************************************)
EXTENDS Integers, Sequences, FiniteSets, TLC

VARIABLES
    phase,      \* "build" | "rejected" | "run"
    verified,   \* last application of #[read] / #[write]: item, mutable, out
    svc,        \* the generated Service impl: read arms, write arms, hooks
    self,       \* the service instance's fields
    ctx,        \* the context of the current invocation: method, payload, cycles
    entry,      \* entry point of the current invocation
    stage,      \* position of the current invocation
    pre,        \* self and cycles when the current invocation was entered
    typed,      \* the decoded payload
    invoked,    \* name of the method the entry point called, "" when none
    ret,        \* what the called method returned
    result,     \* what the entry point returned to the caller
    subCalls,   \* calls of ctx.sub_cycles in the current invocation
    bodyRuns,   \* runs of an author-written body in the current invocation
    prev        \* the invocation before, when the current one repeats its read

vars == <<phase, verified, svc, self, ctx, entry, stage, pre, typed, invoked,
          ret, result, subCalls, bodyRuns, prev>>

-----------------------------------------------------------------------------
(* Bounds *)

\* budgets a host hands out are 0, 5, .., 5 * MaxBudgetUnits
MaxBudgetUnits == 3

\* payload numbers are 0 .. MaxDigit
MaxDigit == 1

Budgets == {5 * k : k \in 0..MaxBudgetUnits}

Digits == 0..MaxDigit

-----------------------------------------------------------------------------
(* ProtocolResult *)

Ok(s) == [tag |-> "Ok", kind |-> "", val |-> s]

Err(k, s) == [tag |-> "Err", kind |-> k, val |-> s]

NoResult == [tag |-> "None", kind |-> "", val |-> ""]

-----------------------------------------------------------------------------
(* #[read] / #[write]: verification of a method item *)

Generics == {"none", "Context: RequestContext", "Context", "two"}

Receivers == {"&self", "&mut self", "none"}

Items == [inService : BOOLEAN, vis : {"private", "pub"}, generics : Generics,
          receiver : Receivers, ctxParam : BOOLEAN,
          ret : {"ProtocolResult<String>", "other"}]

Accept(item) == [ok |-> TRUE, rule |-> 0, item |-> item]

Reject(n, item) == [ok |-> FALSE, rule |-> n, item |-> item]

verify_read_or_write(item, mutable) ==
    IF ~item.inService THEN Reject(1, item)
    ELSE IF item.vis # "private" THEN Reject(2, item)
    ELSE IF item.generics # "Context: RequestContext" THEN Reject(3, item)
    ELSE IF item.receiver # (IF mutable THEN "&mut self" ELSE "&self")
            \/ ~item.ctxParam THEN Reject(4, item)
    ELSE IF item.ret # "ProtocolResult<String>" THEN Reject(5, item)
    ELSE Accept(item)

read(item) == verify_read_or_write(item, FALSE)

\* slip: #[write] passes the flag of #[read]
write_as_read(item) == verify_read_or_write(item, FALSE)

write(item) == verify_read_or_write(item, TRUE)

-----------------------------------------------------------------------------
(* The declarations of a service type, as #[service] sees them *)

GoodItem(recv) ==
    [inService |-> TRUE, vis |-> "private", generics |-> "Context: RequestContext",
     receiver |-> recv, ctxParam |-> TRUE, ret |-> "ProtocolResult<String>"]

NoCycles == -1

Method(n, tags, recv, payload, cost) ==
    [name |-> n, tags |-> tags, item |-> GoodItem(recv), payload |-> payload,
     cost |-> cost]

\* the example service: two read methods, two write methods
get_value_decl == Method("get_value", {"read"}, "&self", "None", NoCycles)

get_kitty_decl == Method("get_kitty", {"read"}, "&self", "GetKittyPayload", 5)

set_value_decl == Method("set_value", {"write"}, "&mut self", "SetValuePayload", 10)

create_kitty_decl ==
    Method("create_kitty", {"write"}, "&mut self", "CreateKittyPayload", NoCycles)

KittyMethods == {get_value_decl, get_kitty_decl, set_value_decl, create_kitty_decl}

\* declarations the build must refuse
BadMethods ==
    { Method("both_shared", {"read", "write"}, "&self", "None", NoCycles),
      Method("both_exclusive", {"read", "write"}, "&mut self", "None", NoCycles),
      Method("write_shared", {"write"}, "&self", "None", NoCycles),
      Method("read_exclusive", {"read"}, "&mut self", "None", NoCycles),
      [Method("pub_read", {"read"}, "&self", "None", NoCycles)
          EXCEPT !.item.vis = "pub"] }

Programs ==
    { [methods |-> KittyMethods \cup extra, hook_before |-> hb, hook_after |-> ha] :
        extra \in {{}} \cup {{m} : m \in BadMethods}, hb \in BOOLEAN, ha \in BOOLEAN }

\* every #[read] / #[write] attribute of the impl block expands without error
Verifies(p) ==
    \A m \in p.methods :
        /\ "read" \in m.tags => read(m.item).ok
        /\ "write" \in m.tags => write(m.item).ok

gen_service_code(p) ==
    [readArms |-> {m \in p.methods : "read" \in m.tags},
     writeArms |-> {m \in p.methods : "write" \in m.tags},
     hook_before |-> p.hook_before,
     hook_after |-> p.hook_after]

NoService == [readArms |-> {}, writeArms |-> {}, hook_before |-> FALSE,
              hook_after |-> FALSE]

-----------------------------------------------------------------------------
(* Payloads: the raw string of the context and serde_json::from_str *)

DigitOf(tok) == CHOOSE n \in Digits : ToString(n) = tok

IsDigit(tok) == \E n \in Digits : ToString(n) = tok

Keys == {"v", "id"}

\* raw payloads, as token sequences: {"v":n}, {"id":n} and malformed ones
RawPayloads ==
    { <<"{", k, ":", ToString(n), "}">> : k \in Keys, n \in Digits }
    \cup { <<>>, <<"{", "}">>, <<"v">> }

FieldOf(type) == IF type = "SetValuePayload" THEN "v" ELSE "id"

NoPayload == [type |-> "None", n |-> 0]

\* Ok: the typed payload; else the diagnostic of the decoder
from_str(type, raw) ==
    IF Len(raw) = 0 THEN [ok |-> FALSE, diag |-> "EOF while parsing a value"]
    ELSE IF raw[1] # "{" THEN [ok |-> FALSE, diag |-> "expected value"]
    ELSE IF raw = <<"{", "}">> THEN [ok |-> FALSE, diag |-> "missing field"]
    ELSE IF Len(raw) # 5 \/ raw[3] # ":" \/ ~IsDigit(raw[4]) \/ raw[5] # "}"
        THEN [ok |-> FALSE, diag |-> "expected value"]
    ELSE IF raw[2] # FieldOf(type) THEN [ok |-> FALSE, diag |-> "missing field"]
    ELSE [ok |-> TRUE, payload |-> [type |-> type, n |-> DigitOf(raw[4])]]

-----------------------------------------------------------------------------
(* The service instance and the bodies its author wrote *)

NewSelf == [value |-> 0, kitty |-> 0, opened |-> FALSE]

Out(s, r) == [self |-> s, ret |-> r]

get_value(s, payload) == Out(s, Ok(ToString(s.value)))

get_kitty(s, payload) ==
    IF payload.n # 0 /\ payload.n = s.kitty
    THEN Out(s, Ok("kitty"))
    ELSE Out(s, Err("Method", "kitty not found"))

set_value(s, payload) ==
    IF payload.n = 0
    THEN Out(s, Err("Method", "zero value"))
    ELSE Out([s EXCEPT !.value = payload.n], Ok("ok"))

create_kitty(s, payload) ==
    IF payload.n = 0 THEN Out(s, Err("Method", "bad id"))
    ELSE IF s.kitty # 0 THEN Out(s, Err("Method", "kitty exists"))
    ELSE Out([s EXCEPT !.kitty = payload.n], Ok(ToString(payload.n)))

Body(name, s, payload) ==
    CASE name = "get_value" -> get_value(s, payload)
      [] name = "get_kitty" -> get_kitty(s, payload)
      [] name = "set_value" -> set_value(s, payload)
      [] name = "create_kitty" -> create_kitty(s, payload)
      [] OTHER -> Out(s, Ok(""))

custom_hook_before(s) ==
    IF s.opened THEN Out(s, Err("Method", "already opened"))
    ELSE Out([s EXCEPT !.opened = TRUE], Ok(""))

custom_hook_after(s) ==
    IF ~s.opened THEN Out(s, Err("Method", "not opened"))
    ELSE Out([s EXCEPT !.opened = FALSE], Ok(""))

-----------------------------------------------------------------------------
(* The context capability and #[cycles] *)

NoCtx == [method |-> "", payload |-> <<>>, cycles |-> 0]

\* ctx.sub_cycles(n): the context after the call and its result
sub_cycles(c, n) ==
    IF c.cycles < n
    THEN [ctx |-> c, ret |-> Err("OutOfCycles", "")]
    ELSE [ctx |-> [c EXCEPT !.cycles = c.cycles - n], ret |-> Ok("")]

\* slip: the failure of sub_cycles is dropped and the body runs anyway
gen_cycles_code_unchecked(m, s, c, payload) ==
    LET sub == sub_cycles(c, m.cost)
        out == Body(m.name, s, payload) IN
    [self |-> out.self, ctx |-> sub.ctx, ret |-> out.ret, subCalls |-> 1,
     bodyRuns |-> 1]

\* slip: the charge is given back when the body fails
gen_cycles_code_refund(m, s, c, payload) ==
    LET sub == sub_cycles(c, m.cost) IN
    IF sub.ret.tag = "Err"
    THEN [self |-> s, ctx |-> sub.ctx, ret |-> sub.ret, subCalls |-> 1, bodyRuns |-> 0]
    ELSE LET out == Body(m.name, s, payload) IN
         [self |-> out.self, ctx |-> IF out.ret.tag = "Err" THEN c ELSE sub.ctx,
          ret |-> out.ret, subCalls |-> 1, bodyRuns |-> 1]

\* slip: the budget is tested but the deduction is lost
gen_cycles_code_uncharged(m, s, c, payload) ==
    LET sub == sub_cycles(c, m.cost) IN
    IF sub.ret.tag = "Err"
    THEN [self |-> s, ctx |-> c, ret |-> sub.ret, subCalls |-> 1, bodyRuns |-> 0]
    ELSE LET out == Body(m.name, s, payload) IN
         [self |-> out.self, ctx |-> c, ret |-> out.ret, subCalls |-> 1,
          bodyRuns |-> 1]

\* a call of method m as it stands after #[cycles(cost)] rewrote it:
\*     ctx.sub_cycles(cost)?;  <original body>
gen_cycles_code(m, s, c, payload) ==
    LET sub == sub_cycles(c, m.cost) IN
    IF sub.ret.tag = "Err"
    THEN [self |-> s, ctx |-> sub.ctx, ret |-> sub.ret, subCalls |-> 1, bodyRuns |-> 0]
    ELSE LET out == Body(m.name, s, payload) IN
         [self |-> out.self, ctx |-> sub.ctx, ret |-> out.ret, subCalls |-> 1,
          bodyRuns |-> 1]

\* slip: a failed call is made a second time
CallMethod_retry(m, s, c, payload) ==
    LET one == IF m.cost # NoCycles THEN gen_cycles_code(m, s, c, payload)
               ELSE LET out == Body(m.name, s, payload) IN
                    [self |-> out.self, ctx |-> c, ret |-> out.ret, subCalls |-> 0,
                     bodyRuns |-> 1]
        two == IF m.cost # NoCycles THEN gen_cycles_code(m, one.self, one.ctx, payload)
               ELSE LET out == Body(m.name, one.self, payload) IN
                    [self |-> out.self, ctx |-> one.ctx, ret |-> out.ret,
                     subCalls |-> 0, bodyRuns |-> 1]
    IN IF one.ret.tag = "Ok" THEN one
       ELSE [two EXCEPT !.subCalls = one.subCalls + two.subCalls,
                        !.bodyRuns = one.bodyRuns + two.bodyRuns]

\* self.m(ctx, payload)
CallMethod(m, s, c, payload) ==
    IF m.cost # NoCycles THEN gen_cycles_code(m, s, c, payload)
    ELSE LET out == Body(m.name, s, payload) IN
         [self |-> out.self, ctx |-> c, ret |-> out.ret, subCalls |-> 0,
          bodyRuns |-> 1]

-----------------------------------------------------------------------------
(* The generated impl Service: hook_before_, hook_after, write, read *)

Ran(out, name) == [self |-> out.self, ret |-> out.ret, invoked |-> name, bodyRuns |-> 1]

NoOp(s) == [self |-> s, ret |-> Ok(""), invoked |-> "", bodyRuns |-> 0]

\* slip: the generated hook_before_ forwards to the other hook
hook_before_swapped(s) == Ran(custom_hook_after(s), "custom_hook_after")

\* fn hook_before_(&mut self) { self.custom_hook_before() }
hook_before_(s) == Ran(custom_hook_before(s), "custom_hook_before")

\* fn hook_after(&mut self) { self.custom_hook_after() }
hook_after(s) == Ran(custom_hook_after(s), "custom_hook_after")

\* the hook the generator emits: the forwarding one when the type marks a method
gen_hook_before(sv, s) == IF sv.hook_before THEN hook_before_(s) ELSE NoOp(s)

gen_hook_after(sv, s) == IF sv.hook_after THEN hook_after(s) ELSE NoOp(s)

\* slip: both entry points match on every exposed method
Arms_all(sv, e) == sv.readArms \cup sv.writeArms

\* the arms of the match of an entry point
Arms(sv, e) == IF e = "write" THEN sv.writeArms ELSE sv.readArms

\* match ctx.get_service_method() { "name" => .., _ => .. }
Match(sv, e, method) == {m \in Arms(sv, e) : m.name = method}

\* slip: the error does not carry the requested name
NotFoundMethod_anon(method) == Err("NotFoundMethod", "")

NotFoundMethod(method) == Err("NotFoundMethod", method)

\* slip: a payload that does not decode is replaced by a default one
Decode_default(m, raw) ==
    LET d == from_str(m.payload, raw) IN
    [ok |-> TRUE, payload |-> IF d.ok THEN d.payload ELSE [type |-> m.payload, n |-> 0],
     err |-> NoResult]

\* serde_json::from_str(ctx.get_payload()).map_err(|e| ServiceError::JsonParse(e))
Decode(m, raw) ==
    LET d == from_str(m.payload, raw) IN
    IF d.ok THEN [ok |-> TRUE, payload |-> d.payload, err |-> NoResult]
    ELSE [ok |-> FALSE, payload |-> NoPayload, err |-> Err("JsonParse", d.diag)]

\* slip: the error of the method is wrapped into an error of the service
ArmValue_wrap(r) == IF r.tag = "Err" THEN Err("Service", r.val) ELSE r

\* the value of a match arm is the value of the method call that ends it
ArmValue(r) == r

Terminal(r) == IF r.tag = "Ok" THEN "Succeeded" ELSE "Failed"

TerminalStages == {"Succeeded", "Failed"}

-----------------------------------------------------------------------------
(* State machine *)

NoPre == [self |-> NewSelf, cycles |-> 0]

Init ==
    /\ phase = "build"
    /\ verified = {}
    /\ svc = NoService
    /\ self = NewSelf
    /\ ctx = NoCtx
    /\ entry = ""
    /\ stage = "idle"
    /\ pre = NoPre
    /\ typed = NoPayload
    /\ invoked = ""
    /\ ret = NoResult
    /\ result = NoResult
    /\ subCalls = 0
    /\ bodyRuns = 0
    /\ prev = {}

\* an attribute #[read] (mutable = FALSE) or #[write] is expanded on a method item
Verify(item, mutable) ==
    /\ phase = "build"
    /\ verified' = {[item |-> item, mutable |-> mutable,
                     out |-> IF mutable THEN write(item) ELSE read(item)]}
    /\ UNCHANGED <<phase, svc, self, ctx, entry, stage, pre, typed, invoked, ret,
                   result, subCalls, bodyRuns, prev>>

\* #[service] is expanded on an impl block and the crate is compiled
Bind(p) ==
    /\ phase = "build"
    /\ IF Verifies(p)
       THEN phase' = "run" /\ svc' = gen_service_code(p)
       ELSE phase' = "rejected" /\ svc' = NoService
    /\ verified' = {}
    /\ UNCHANGED <<self, ctx, entry, stage, pre, typed, invoked, ret, result,
                   subCalls, bodyRuns, prev>>

Idle == phase = "run" /\ stage \in {"idle"} \cup TerminalStages

\* the record of a finished read, kept while the next call repeats it
Finished ==
    [self |-> pre.self, clean |-> (self = pre.self /\ ctx.cycles = pre.cycles),
     result |-> result]

\* the host calls service.read(ctx) or service.write(ctx)
Call(e, method, raw, cycles) ==
    /\ Idle
    /\ entry' = e
    /\ ctx' = [method |-> method, payload |-> raw, cycles |-> cycles]
    /\ pre' = [self |-> self, cycles |-> cycles]
    /\ stage' = "Received"
    /\ typed' = NoPayload
    /\ invoked' = ""
    /\ ret' = NoResult
    /\ result' = NoResult
    /\ subCalls' = 0
    /\ bodyRuns' = 0
    /\ prev' = IF e = "read" /\ entry = "read" /\ stage \in TerminalStages
                  /\ method = ctx.method /\ raw = ctx.payload
               THEN {Finished} ELSE {}
    /\ UNCHANGED <<phase, verified, svc, self>>

\* the call of the matched method, with the payload when it takes one
Invoke(m, payload) ==
    LET out == CallMethod(m, self, ctx, payload) IN
    /\ self' = out.self
    /\ ctx' = out.ctx
    /\ ret' = out.ret
    /\ invoked' = m.name
    /\ subCalls' = subCalls + out.subCalls
    /\ bodyRuns' = bodyRuns + out.bodyRuns
    /\ stage' = "Invoked"

\* the match on the method name, and the decoding of the payload
Dispatch ==
    /\ phase = "run"
    /\ stage = "Received"
    /\ LET arms == Match(svc, entry, ctx.method) IN
       IF arms = {}
       THEN /\ result' = NotFoundMethod(ctx.method)
            /\ stage' = "Failed"
            /\ UNCHANGED <<self, ctx, typed, invoked, ret, subCalls, bodyRuns>>
       ELSE LET m == CHOOSE a \in arms : TRUE IN
            IF m.payload = "None"
            THEN Invoke(m, NoPayload) /\ UNCHANGED <<typed, result>>
            ELSE LET d == Decode(m, ctx.payload) IN
                 IF d.ok
                 THEN /\ typed' = d.payload
                      /\ stage' = "Decoded"
                      /\ UNCHANGED <<self, ctx, invoked, ret, result, subCalls,
                                     bodyRuns>>
                 ELSE /\ result' = d.err
                      /\ stage' = "Failed"
                      /\ UNCHANGED <<self, ctx, typed, invoked, ret, subCalls,
                                     bodyRuns>>
    /\ UNCHANGED <<phase, verified, svc, entry, pre, prev>>

\* self.method(ctx, payload)
InvokeDecoded ==
    /\ phase = "run"
    /\ stage = "Decoded"
    /\ Invoke(CHOOSE a \in Match(svc, entry, ctx.method) : TRUE, typed)
    /\ UNCHANGED <<phase, verified, svc, entry, pre, typed, result, prev>>

\* the entry point returns what the method returned
Return ==
    /\ phase = "run"
    /\ stage = "Invoked"
    /\ result' = ArmValue(ret)
    /\ stage' = Terminal(ArmValue(ret))
    /\ UNCHANGED <<phase, verified, svc, self, ctx, entry, pre, typed, invoked,
                   ret, subCalls, bodyRuns, prev>>

Hook(e, out) ==
    /\ Idle
    /\ entry' = e
    /\ ctx' = NoCtx
    /\ pre' = [self |-> self, cycles |-> 0]
    /\ self' = out.self
    /\ ret' = out.ret
    /\ result' = out.ret
    /\ invoked' = out.invoked
    /\ bodyRuns' = out.bodyRuns
    /\ subCalls' = 0
    /\ typed' = NoPayload
    /\ stage' = Terminal(out.ret)
    /\ prev' = {}
    /\ UNCHANGED <<phase, verified, svc>>

\* the host calls service.hook_before_()
HookBefore == Hook("hook_before", gen_hook_before(svc, self))

\* the host calls service.hook_after()
HookAfter == Hook("hook_after", gen_hook_after(svc, self))

MethodNames == {m.name : m \in KittyMethods} \cup {"no_such"}

Next ==
    \/ \E item \in Items, mutable \in BOOLEAN : Verify(item, mutable)
    \/ \E p \in Programs : Bind(p)
    \/ \E e \in {"read", "write"}, method \in MethodNames, raw \in RawPayloads,
          cycles \in Budgets : Call(e, method, raw, cycles)
    \/ Dispatch
    \/ InvokeDecoded
    \/ Return
    \/ HookBefore
    \/ HookAfter

Spec == Init /\ [][Next]_vars

-----------------------------------------------------------------------------
(* Vocabulary of the properties *)

\* the dispatch table of an entry point, read off the bound service
Table(e) == IF e = "write" THEN svc.writeArms ELSE svc.readArms

Exposed == svc.readArms \cup svc.writeArms

Named(e) == {m \in Table(e) : m.name = ctx.method}

InCall == phase = "run" /\ entry \in {"read", "write"}

Finishes == InCall /\ stage \in TerminalStages

Decodes(m) == m.payload = "None" \/ from_str(m.payload, ctx.payload).ok

Untouched == self = pre.self /\ ctx.cycles = pre.cycles

OutOfCycles == Err("OutOfCycles", "")

-----------------------------------------------------------------------------
(* Properties *)

\* C1 - Metering atomicity: when a method with cycle cost C is entered with a
\* budget below C, sub_cycles(C) fails, the method returns that failure, its
\* original body does not run and the service state is as before the call.
MeteringAtomicity ==
    InCall /\ invoked # "" =>
        \A m \in Exposed :
            m.name = invoked /\ m.cost # NoCycles /\ pre.cycles < m.cost =>
                /\ subCalls = 1
                /\ ret = OutOfCycles
                /\ bodyRuns = 0
                /\ self = pre.self
                /\ stage \in TerminalStages => stage = "Failed" /\ result = OutOfCycles

\* set_value { v: 1 } entered with 5 cycles: refused, value still 0
MeteringAtomicityWitness ==
    /\ Finishes /\ invoked = "set_value" /\ typed.n = 1 /\ pre.cycles = 5
    /\ result = OutOfCycles /\ self.value = 0

\* C2 - Not-found: a call whose method name is not in the table of its entry
\* point returns NotFoundMethod with the requested name; no body is invoked,
\* sub_cycles is not called, service state and budget are unchanged.
NotFound ==
    InCall /\ stage # "Received" /\ Named(entry) = {} =>
        /\ stage = "Failed"
        /\ result = Err("NotFoundMethod", ctx.method)
        /\ invoked = ""
        /\ bodyRuns = 0
        /\ subCalls = 0
        /\ Untouched

NotFoundWitness ==
    /\ Finishes /\ entry = "read" /\ ctx.method = "no_such" /\ pre.cycles > 0
    /\ result.kind = "NotFoundMethod"

\* C3 - Charge exactly once: a call that names a method with cycle cost C, whose
\* payload decodes and whose budget B is at least C, calls sub_cycles once, runs
\* the body, and leaves the budget at B - C whether the body succeeds or fails.
ChargeExactlyOnce ==
    Finishes =>
        \A m \in Named(entry) :
            m.cost # NoCycles /\ Decodes(m) /\ pre.cycles >= m.cost =>
                /\ invoked = m.name
                /\ subCalls = 1
                /\ bodyRuns = 1
                /\ ctx.cycles = pre.cycles - m.cost
                /\ result.kind # "OutOfCycles"

\* set_value { v: 0 } with 15 cycles: the body fails, 10 cycles are gone
ChargeExactlyOnceWitness ==
    /\ Finishes /\ invoked = "set_value" /\ pre.cycles = 15 /\ ctx.cycles = 5
    /\ result = Err("Method", "zero value")

\* C4 - Decode failure precedes charging: a call that names a method with a
\* payload type, with a payload that does not decode, returns JsonParse with the
\* decoder's diagnostic; the method is not invoked and the budget is unchanged.
DecodeFailureUncharged ==
    InCall /\ stage # "Received" =>
        \A m \in Named(entry) :
            m.payload # "None" /\ ~from_str(m.payload, ctx.payload).ok =>
                /\ stage = "Failed"
                /\ result = Err("JsonParse", from_str(m.payload, ctx.payload).diag)
                /\ invoked = ""
                /\ bodyRuns = 0
                /\ subCalls = 0
                /\ Untouched

\* set_value (cost 10) called with { id: 1 } and 15 cycles
DecodeFailureUnchargedWitness ==
    /\ Finishes /\ entry = "write" /\ ctx.method = "set_value"
    /\ ctx.payload = <<"{", "id", ":", "1", "}">> /\ pre.cycles = 15
    /\ result = Err("JsonParse", "missing field") /\ ctx.cycles = 15

\* C5 - Pass-through: a call that names a method and whose payload decodes
\* invokes that method with the decoded payload and returns exactly what the
\* method returned, a success value and an error alike.
PassThrough ==
    Finishes =>
        \A m \in Named(entry) :
            Decodes(m) =>
                /\ invoked = m.name
                /\ m.payload # "None" => typed = from_str(m.payload, ctx.payload).payload
                /\ result = ret
                /\ m.name = "get_value" => result = Ok(ToString(pre.self.value))
                /\ m.name = "set_value" /\ typed.n # 0 /\ pre.cycles >= 10 =>
                       result = Ok("ok") /\ self.value = typed.n
                /\ m.name = "set_value" /\ typed.n = 0 /\ pre.cycles >= 10 =>
                       result = Err("Method", "zero value")

\* create_kitty { id: 1 } on a service that already holds a kitty
PassThroughWitness ==
    /\ Finishes /\ invoked = "create_kitty" /\ typed.n = 1
    /\ result = Err("Method", "kitty exists")

\* C6 - Role isolation: no name is in both dispatch tables; read naming a
\* write-only method and write naming a read-only method return NotFoundMethod
\* and invoke nothing; read only ever invokes a method with the shared receiver.
RoleIsolation ==
    phase = "run" =>
        /\ {m.name : m \in svc.readArms} \cap {m.name : m \in svc.writeArms} = {}
        /\ Finishes /\ (\E m \in Table(IF entry = "read" THEN "write" ELSE "read") :
                            m.name = ctx.method) =>
               result = Err("NotFoundMethod", ctx.method) /\ invoked = ""
        /\ InCall /\ entry = "read" /\ invoked # "" =>
               \E m \in svc.readArms : m.name = invoked /\ m.item.receiver = "&self"
        /\ InCall /\ entry = "read" => self = pre.self

\* read(ctx) naming set_value with a payload and a budget set_value would accept
RoleIsolationWitness ==
    /\ Finishes /\ entry = "read" /\ ctx.method = "set_value"
    /\ ctx.payload = <<"{", "v", ":", "1", "}">> /\ pre.cycles = 15
    /\ result = Err("NotFoundMethod", "set_value") /\ self.value = 0

\* the constraints of the validator, each read off the item alone
Constraint(n, item, mutable) ==
    CASE n = 1 -> item.inService
      [] n = 2 -> item.vis = "private"
      [] n = 3 -> item.generics = "Context: RequestContext"
      [] n = 4 -> /\ mutable => item.receiver = "&mut self"
                  /\ ~mutable => item.receiver = "&self"
                  /\ item.ctxParam
      [] n = 5 -> item.ret = "ProtocolResult<String>"

Violated(item, mutable) == {n \in 1..5 : ~Constraint(n, item, mutable)}

Payloadless == \E m \in Named(entry) : m.payload = "None"

\* C10 - Per-invocation state machine: an invocation starts in Received, moves
\* only Received -> Decoded -> Invoked or to a failure, and ends in one terminal
\* state that it never leaves; nothing is retried, so at most one body runs, at
\* most once; a method without payload is invoked without a decode step and
\* never ends in a decode failure.
InvocationStep ==
    /\ stage' # stage \/ entry' # entry =>
          \/ /\ stage \in {"idle"} \cup TerminalStages
             /\ \/ stage' = "Received" /\ entry' \in {"read", "write"}
                   /\ bodyRuns' = 0 /\ invoked' = "" /\ result' = NoResult
                \/ stage' \in TerminalStages /\ entry' \in {"hook_before", "hook_after"}
          \/ /\ stage = "Received" /\ entry' = entry
             /\ \/ stage' = "Decoded" /\ ~Payloadless /\ bodyRuns' = 0
                \/ stage' = "Invoked" /\ Payloadless /\ typed' = NoPayload
                \/ stage' = "Failed" /\ result'.kind = "NotFoundMethod"
                   /\ bodyRuns' = 0
                \/ stage' = "Failed" /\ result'.kind = "JsonParse" /\ ~Payloadless
                   /\ Named(entry) # {} /\ bodyRuns' = 0
          \/ /\ stage = "Decoded" /\ entry' = entry
             /\ stage' = "Invoked"
          \/ /\ stage = "Invoked" /\ entry' = entry
             /\ \/ stage' = "Succeeded" /\ result'.tag = "Ok"
                \/ stage' = "Failed" /\ result'.kind \in {"Method", "OutOfCycles"}
             /\ result' = ret
    /\ stage' = stage /\ entry' = entry =>
          stage \in {"idle"} \cup TerminalStages
    /\ stage \in TerminalStages /\ stage' = stage /\ entry' = entry =>
          \/ UNCHANGED <<self, ctx, result, ret, invoked, bodyRuns, subCalls>>
          \/ entry \in {"hook_before", "hook_after"}
    /\ bodyRuns' <= 1
    /\ invoked # "" /\ stage \notin TerminalStages => invoked' = invoked
    /\ stage' = "Invoked" => invoked' # "" /\ invoked' = ctx.method

InvocationStateMachine == [][InvocationStep]_vars

\* get_value has ended in Succeeded, no payload having been decoded
InvocationStateMachineWitness ==
    /\ Finishes /\ stage = "Succeeded" /\ invoked = "get_value"
    /\ ctx.payload = <<"v">> /\ typed = NoPayload /\ bodyRuns = 1

====
